---- MODULE Spec2Model ----
(***************************************************************************)
(* A model of the TF-IDF document index of chatbot.py: the tokenizer, the  *)
(* chunker, the corpus store (add_file, add_folder, rebuild, clear) and    *)
(* the query engine.                                                       *)
(*                                                                         *)
(* Text is a sequence of one-character strings.  Floating point numbers    *)
(* are fixed-point integers: a term frequency f is the integer f * One, an *)
(* IDF weight w is the integer w * IdfOne, and a score s is s * ScoreOne.  *)
(***************************************************************************)
EXTENDS Integers, Sequences, FiniteSets, TLC

VARIABLES
    docs,      \* TfidfIndex.docs:   sequence of [path, n_chunks]
    chunks,    \* TfidfIndex.chunks: sequence of chunk records
    idf,       \* TfidfIndex.idf:    term -> weight
    nbuilt,    \* history: Len(chunks) when rebuild last ran (0 after a clear)
    phase,     \* history: "cleared" from a clear until the index next changes,
               \* "cleared_added" while one add_file is all that followed it
    op,        \* the operation that ran last, with its arguments
    ret,       \* what that operation returned, or that it raised
    sc_text,   \* split_chunks harness: the text argument
    sc_max,    \* split_chunks harness: the max_chars argument
    sc_pc,     \* split_chunks harness: "call" before the call, "done" after
    sc_out     \* split_chunks harness: the value returned

vars == <<docs, chunks, idf, nbuilt, phase, op, ret, sc_text, sc_max, sc_pc, sc_out>>

indexVars == <<docs, chunks, idf, nbuilt, phase, op, ret>>

chunkerVars == <<sc_text, sc_max, sc_pc, sc_out>>

----------------------------------------------------------------------------
(* Characters *)

Letters == {"a", "b", "x", "y", "z", "q", "t", "m", "d", "l", "o", "g", "i", "n"}

UpperLetters == {"A", "B", "X", "Y", "Z", "M", "D", "T"}

Whitespace == {" ", "\n"}

SentenceEnd == {".", "!", "?"}

\* str.isspace / the regex class \s
IsSpace(c) == c \in Whitespace

\* the regex class [A-Za-z0-9_]
IsWordChar(c) == c \in Letters \cup UpperLetters \cup {"_"}

\* str.lower on one character
LowerChar(c) ==
    CASE c = "A" -> "a"
      [] c = "B" -> "b"
      [] c = "X" -> "x"
      [] c = "Y" -> "y"
      [] c = "Z" -> "z"
      [] c = "M" -> "m"
      [] c = "D" -> "d"
      [] c = "T" -> "t"
      [] OTHER -> c

\* str.lower
Lower(s) == [i \in 1..Len(s) |-> LowerChar(s[i])]

\* the code point order of the characters that occur in file names
Ord(c) ==
    CASE c = "." -> 46
      [] c = "A" -> 65
      [] c = "B" -> 66
      [] c = "D" -> 68
      [] c = "M" -> 77
      [] c = "T" -> 84
      [] c = "X" -> 88
      [] c = "Y" -> 89
      [] c = "Z" -> 90
      [] c = "_" -> 95
      [] c = "a" -> 97
      [] c = "b" -> 98
      [] c = "d" -> 100
      [] c = "g" -> 103
      [] c = "i" -> 105
      [] c = "l" -> 108
      [] c = "m" -> 109
      [] c = "n" -> 110
      [] c = "o" -> 111
      [] c = "q" -> 113
      [] c = "t" -> 116
      [] c = "x" -> 120
      [] c = "y" -> 121
      [] c = "z" -> 122
      [] OTHER -> 0

----------------------------------------------------------------------------
(* Strings *)

\* the index of the first non-space character at or after i (Len(s)+1 if none)
RECURSIVE SkipSpace(_, _)
SkipSpace(s, i) ==
    IF i > Len(s) \/ ~IsSpace(s[i]) THEN i ELSE SkipSpace(s, i + 1)

\* the index of the last non-space character at or before i (0 if none)
RECURSIVE SkipSpaceBack(_, _)
SkipSpaceBack(s, i) ==
    IF i < 1 \/ ~IsSpace(s[i]) THEN i ELSE SkipSpaceBack(s, i - 1)

\* str.strip
Strip(s) == SubSeq(s, SkipSpace(s, 1), SkipSpaceBack(s, Len(s)))

\* s[:n]
Prefix(s, n) == SubSeq(s, 1, IF n < Len(s) THEN n ELSE Len(s))

\* WORD_RE.findall: the maximal runs of word characters, left to right
RECURSIVE FindWords(_, _, _, _)
FindWords(s, i, cur, acc) ==
    IF i > Len(s)
    THEN IF cur = <<>> THEN acc ELSE Append(acc, cur)
    ELSE IF IsWordChar(s[i])
         THEN FindWords(s, i + 1, Append(cur, s[i]), acc)
         ELSE FindWords(s, i + 1, <<>>,
                        IF cur = <<>> THEN acc ELSE Append(acc, cur))

\* [w.lower() for w in words]
LowerAll(words) == [i \in 1..Len(words) |-> Lower(words[i])]

tokenize(text) == LowerAll(FindWords(text, 1, <<>>, <<>>))

----------------------------------------------------------------------------
(* split_chunks *)

\* Where a match of \n\s*\n that starts at i ends; 0 if there is none.
\* \s* is greedy and backtracks: the match ends at the last newline of the
\* whitespace run that starts at i.
ParaSepEnd(s, i) ==
    IF s[i] # "\n" THEN 0
    ELSE LET stop == SkipSpace(s, i + 1) - 1
             ends == {e \in (i + 1)..stop : s[e] = "\n"}
         IN  IF ends = {} THEN 0
             ELSE CHOOSE e \in ends : \A f \in ends : f <= e

\* re.split(r"\n\s*\n", text)
RECURSIVE ParaSplit(_, _, _, _)
ParaSplit(s, i, start, acc) ==
    IF i > Len(s) THEN Append(acc, SubSeq(s, start, Len(s)))
    ELSE LET e == ParaSepEnd(s, i)
         IN  IF e > 0
             THEN ParaSplit(s, e + 1, e + 1, Append(acc, SubSeq(s, start, i - 1)))
             ELSE ParaSplit(s, i + 1, start, acc)

\* p.strip() of every piece
StripAll(parts) == [i \in 1..Len(parts) |-> Strip(parts[i])]

\* the paragraphs kept as split: [p for p in re.split(...) if p.strip()]
ParagraphsUntrimmed(text) ==
    SelectSeq(ParaSplit(text, 1, 1, <<>>), LAMBDA p : Strip(p) # <<>>)

\* [p.strip() for p in re.split(...) if p.strip()]

Paragraphs(text) ==
    SelectSeq(StripAll(ParaSplit(text, 1, 1, <<>>)), LAMBDA p : p # <<>>)

\* Where a match of (?<=[.!?])\s+ that starts at i ends; 0 if there is none.
SentSepEnd(s, i) ==
    IF i > 1 /\ s[i - 1] \in SentenceEnd /\ IsSpace(s[i])
    THEN SkipSpace(s, i) - 1
    ELSE 0

\* re.split(r"(?<=[.!?])\s+", p)
RECURSIVE SentSplit(_, _, _, _)
SentSplit(s, i, start, acc) ==
    IF i > Len(s) THEN Append(acc, SubSeq(s, start, Len(s)))
    ELSE LET e == SentSepEnd(s, i)
         IN  IF e > 0
             THEN SentSplit(s, e + 1, e + 1, Append(acc, SubSeq(s, start, i - 1)))
             ELSE SentSplit(s, i + 1, start, acc)

Sentences(p) == SentSplit(p, 1, 1, <<>>)

\* the test that packs sentence s onto the accumulator cur
FitsDropJoin(cur, s, max_chars) == Len(cur) + Len(s) <= max_chars

Fits(cur, s, max_chars) == Len(cur) + Len(s) + 1 <= max_chars

\* the loop over the sentences of an oversized paragraph, from sentence i on;
\* returns <<chunks emitted, cur>>
RECURSIVE PackLoop(_, _, _, _, _)
PackLoop(sent, i, cur, out, max_chars) ==
    IF i > Len(sent) THEN <<out, cur>>
    ELSE IF Fits(cur, sent[i], max_chars)
         THEN PackLoop(sent, i + 1, Strip(cur \o <<" ">> \o sent[i]), out, max_chars)
         ELSE PackLoop(sent, i + 1, sent[i],
                       IF cur # <<>> THEN Append(out, cur) ELSE out, max_chars)

\* "if cur: chunks.append(cur)" after the loop, r being <<chunks emitted, cur>>
Flush(r) == IF r[2] # <<>> THEN Append(r[1], r[2]) ELSE r[1]

\* the chunks of one paragraph
ParaChunks(p, max_chars) ==
    IF Len(p) <= max_chars THEN <<p>>
    ELSE Flush(PackLoop(Sentences(p), 1, <<>>, <<>>, max_chars))

RECURSIVE ChunkParas(_, _, _)
ChunkParas(paras, i, max_chars) ==
    IF i > Len(paras) THEN <<>>
    ELSE ParaChunks(paras[i], max_chars) \o ChunkParas(paras, i + 1, max_chars)

\* "if not chunks and text.strip(): chunks = [text.strip()[:max_chars]]"
Fallback(found, text, max_chars) ==
    IF found = <<>> /\ Strip(text) # <<>>
    THEN <<Prefix(Strip(text), max_chars)>>
    ELSE found

split_chunks(text, max_chars) ==
    Fallback(ChunkParas(Paragraphs(text), 1, max_chars), text, max_chars)

----------------------------------------------------------------------------
(* Bounds of the model *)

MaxDocs == 3        \* add_file is not taken beyond this many documents

MaxChunks == 4      \* nor beyond this many chunks

MaxK == 2           \* query is called with k in 0..MaxK

MaxTextLen == 5     \* split_chunks is applied to texts of at most this length

MaxMaxChars == 3    \* and to max_chars in 1..MaxMaxChars

----------------------------------------------------------------------------
(* Numbers *)

DefaultMaxChars == 600

One == 12           \* the term frequency 1.0

IdfOne == 10        \* the IDF weight 1.0

ScoreOne == 1000    \* the score 1.0

NormOne == One * IdfOne   \* the norm 1.0, in the unit of a vector entry

\* math.log(n) * IdfOne, rounded, for n = 1, 2, ...
LnTable == <<0, 7, 11, 14, 16, 18, 19, 21, 22, 23, 24, 25, 26, 26, 27, 28>>

Ln(n) == IF n <= Len(LnTable) THEN LnTable[n] ELSE LnTable[Len(LnTable)] + 1

\* math.log(a / b) * IdfOne for 0 < a, b; negative when a < b
LogRatio(a, b) == Ln(a) - Ln(b)

\* math.sqrt, rounded down: the largest r in lo..hi with r * r <= n
RECURSIVE SqrtIn(_, _, _)
SqrtIn(n, lo, hi) ==
    IF lo >= hi THEN lo
    ELSE LET mid == (lo + hi + 1) \div 2
         IN  IF mid * mid <= n THEN SqrtIn(n, mid, hi) ELSE SqrtIn(n, lo, mid - 1)

Sqrt(n) == SqrtIn(n, 0, IF n < 46340 THEN n ELSE 46340)

----------------------------------------------------------------------------
(* Maps: Python dicts with terms as keys *)

EmptyMap == [t \in {} |-> 0]

\* d.get(t, 0)
Get(d, t) == IF t \in DOMAIN d THEN d[t] ELSE 0

\* d[t] = v
Put(d, t, v) == [u \in DOMAIN d \cup {t} |-> IF u = t THEN v ELSE d[u]]

Range(s) == {s[i] : i \in DOMAIN s}

RECURSIVE SumOver(_, _)
SumOver(d, keys) ==
    IF keys = {} THEN 0
    ELSE LET t == CHOOSE u \in keys : TRUE
         IN  d[t] + SumOver(d, keys \ {t})

\* sum(d.values())
SumValues(d) == SumOver(d, DOMAIN d)

\* sum(v * v for v in d.values())
SumSquares(d) == SumOver([t \in DOMAIN d |-> d[t] * d[t]], DOMAIN d)

----------------------------------------------------------------------------
(* The file system the index reads: a fixed set of folders and files *)

FileSystem ==
    [d1 |-> {[name |-> <<"a", ".", "t", "x", "t">>, kind |-> "file", readable |-> TRUE,
              text |-> <<"x", " ", "y">>],
             [name |-> <<"B", ".", "M", "D">>, kind |-> "file", readable |-> TRUE,
              text |-> <<"X", " ", "z">>],
             [name |-> <<"b", ".", "b", "i", "n">>, kind |-> "file", readable |-> TRUE,
              text |-> <<"x">>],
             [name |-> <<"d", ".", "m", "d">>, kind |-> "dir", readable |-> TRUE,
              text |-> <<>>]},
     d2 |-> {[name |-> <<".", "t", "x", "t">>, kind |-> "file", readable |-> TRUE,
              text |-> <<" ", "\n">>],
             [name |-> <<"t", ".", "t", "x", "t">>, kind |-> "dir", readable |-> TRUE,
              text |-> <<>>]},
     d3 |-> {[name |-> <<"a", ".", "t", "x", "t">>, kind |-> "file", readable |-> TRUE,
              text |-> <<"x", " ", "y", "\n", "\n", ".">>],
             [name |-> <<"b", ".", "l", "o", "g">>, kind |-> "file", readable |-> FALSE,
              text |-> <<>>],
             [name |-> <<"d", ".", "t", "x", "t">>, kind |-> "file", readable |-> TRUE,
              text |-> <<"z", " ", "z", " ", "x">>]}]

\* the folders add_folder is called on; "d0" does not exist
Folders == {"d0", "d1", "d2", "d3"}

Exists(dir) == dir \in DOMAIN FileSystem

\* the paths add_file is called on
FilePaths ==
    UNION {{[dir |-> d, name |-> e.name] : e \in {x \in FileSystem[d] : x.kind = "file"}} :
              d \in DOMAIN FileSystem}

Entry(path) == CHOOSE e \in FileSystem[path.dir] : e.name = path.name

----------------------------------------------------------------------------
(* Paths *)

ALLOWED_SUFFIX == {<<".", "t", "x", "t">>, <<".", "m", "d">>, <<".", "l", "o", "g">>}

\* name.rfind("."): the index of the last dot of the name, 0 if it has none
LastDot(name) ==
    LET dots == {i \in 1..Len(name) : name[i] = "."}
    IN  IF dots = {} THEN 0 ELSE CHOOSE i \in dots : \A j \in dots : j <= i

\* PurePath.suffix: the name from its last dot on, when that dot is neither
\* the first nor the last character of the name
Suffix(name) ==
    LET i == LastDot(name)
    IN  IF 1 < i /\ i < Len(name) THEN SubSeq(name, i, Len(name)) ELSE <<>>

\* the order of two names: code point by code point, a proper prefix first
RECURSIVE NameLess(_, _, _)
NameLess(a, b, i) ==
    IF i > Len(a) THEN i <= Len(b)
    ELSE IF i > Len(b) THEN FALSE
    ELSE IF Ord(a[i]) # Ord(b[i]) THEN Ord(a[i]) < Ord(b[i])
    ELSE NameLess(a, b, i + 1)

\* PurePath.__lt__ for two entries of one folder
PathLess(p, q) == NameLess(p.name, q.name, 1)

\* the test with the suffix compared as written
AcceptsCaseSensitive(e) == e.kind = "file" /\ Suffix(e.name) \in ALLOWED_SUFFIX

\* p.is_file() and p.suffix.lower() in ALLOWED_SUFFIX
Accepts(e) == e.kind = "file" /\ Lower(Suffix(e.name)) \in ALLOWED_SUFFIX

\* files.sort(): the paths of a set in increasing order
RECURSIVE SortPaths(_)
SortPaths(ps) ==
    IF ps = {} THEN <<>>
    ELSE LET least == CHOOSE p \in ps : \A q \in ps \ {p} : PathLess(p, q)
         IN  <<least>> \o SortPaths(ps \ {least})

\* the list add_folder iterates over
FolderFiles(dir) ==
    SortPaths({[dir |-> dir, name |-> e.name] : e \in {x \in FileSystem[dir] : Accepts(x)}})

----------------------------------------------------------------------------
(* TfidfIndex.add_file *)

\* the loop "for t in toks: tf[t] = tf.get(t, 0.0) + inv", from token i on
RECURSIVE TfLoop(_, _, _, _)
TfLoop(toks, i, tf, inv) ==
    IF i > Len(toks) THEN tf
    ELSE TfLoop(toks, i + 1, Put(tf, toks[i], Get(tf, toks[i]) + inv), inv)

\* term frequencies that are set, not added up: tf[t] = inv
TermFreqAssigned(toks) ==
    IF toks = <<>> THEN EmptyMap
    ELSE [t \in Range(toks) |-> One \div Len(toks)]

\* the term-frequency map of a token list: empty for no tokens
TermFreq(toks) ==
    IF toks = <<>> THEN EmptyMap
    ELSE TfLoop(toks, 1, EmptyMap, One \div Len(toks))

\* a record whose vector starts as its term frequencies
NewChunkVecIsTf(path, i, c) ==
    [doc_path |-> path, chunk_id |-> i, text |-> c, tokens |-> tokenize(c),
     tf |-> TermFreq(tokenize(c)), vec |-> TermFreq(tokenize(c)), norm |-> 0]

\* the record add_file appends for chunk text c, the i-th (from 0) of path
NewChunk(path, i, c) ==
    [doc_path |-> path, chunk_id |-> i, text |-> c, tokens |-> tokenize(c),
     tf |-> TermFreq(tokenize(c)), vec |-> EmptyMap, norm |-> 0]

\* the loop "for i, c in enumerate(chunks)": one record for each chunk text
ChunkRecords(path, parts) == [i \in 1..Len(parts) |-> NewChunk(path, i - 1, parts[i])]

\* the appends of add_file, recs being the records of the file
Appended(cs, ds, path, recs) ==
    <<cs \o recs, Append(ds, [path |-> path, n_chunks |-> Len(recs)]), Len(recs)>>

\* add_file on a readable file: <<chunks, docs, len(chunks of the file)>>
AddFileTo(cs, ds, path) ==
    Appended(cs, ds, path,
             ChunkRecords(path, split_chunks(Entry(path).text, DefaultMaxChars)))

----------------------------------------------------------------------------
(* TfidfIndex.add_folder *)

\* the loop over the sorted files, from file i on; a file that cannot be
\* read raises out of add_file, and so out of add_folder, with the files
\* before it already added
RECURSIVE FolderLoop(_, _, _, _, _, _)

\* "nchunks += self.add_file(f); nfiles += 1", r being what add_file made
FolderStep(files, i, r, nfiles, nchunks) ==
    FolderLoop(files, i + 1, r[1], r[2], nfiles + 1, nchunks + r[3])

FolderLoop(files, i, cs, ds, nfiles, nchunks) ==
    IF i > Len(files)
    THEN [kind |-> "ok", error |-> "", chunks |-> cs, docs |-> ds,
          nfiles |-> nfiles, nchunks |-> nchunks]
    ELSE IF ~Entry(files[i]).readable
    THEN [kind |-> "raise", error |-> "OSError", chunks |-> cs, docs |-> ds,
          nfiles |-> nfiles, nchunks |-> nchunks]
    ELSE FolderStep(files, i, AddFileTo(cs, ds, files[i]), nfiles, nchunks)

\* add_folder: folder.iterdir() raises for a folder that does not exist
AddFolderTo(cs, ds, dir) ==
    IF ~Exists(dir)
    THEN [kind |-> "raise", error |-> "FileNotFoundError", chunks |-> cs, docs |-> ds,
          nfiles |-> 0, nchunks |-> 0]
    ELSE FolderLoop(FolderFiles(dir), 1, cs, ds, 0, 0)

----------------------------------------------------------------------------
(* TfidfIndex.rebuild *)

Max(a, b) == IF a >= b THEN a ELSE b

\* what one chunk adds to df[t]: the loop runs over set(ch["tokens"])
DfCountOccurrences(ch, t) == Cardinality({i \in 1..Len(ch.tokens) : ch.tokens[i] = t})

DfCount(ch, t) == IF t \in Range(ch.tokens) THEN 1 ELSE 0

\* the loop "for ch in self.chunks: for t in seen: df[t] = df.get(t, 0) + 1"
RECURSIVE DfLoop(_, _, _)
DfLoop(cs, i, df) ==
    IF i > Len(cs) THEN df
    ELSE DfLoop(cs, i + 1,
                [t \in DOMAIN df \cup Range(cs[i].tokens) |-> Get(df, t) + DfCount(cs[i], t)])

\* the weight without its floor of 1.0
IdfWeightNoFloor(N, df_t) == LogRatio(1 + N, 1 + df_t)

\* math.log((1 + N) / (1 + df_t)) + 1.0
IdfWeight(N, df_t) == LogRatio(1 + N, 1 + df_t) + IdfOne

\* the IDF table of a chunk list
IdfOf(cs) ==
    LET N  == Max(1, Len(cs))
        df == DfLoop(cs, 1, EmptyMap)
    IN  [t \in DOMAIN df |-> IdfWeight(N, df[t])]

\* the vector of a chunk under an IDF table: terms without an entry are skipped
VecOf(ch, table) == [t \in DOMAIN ch.tf \cap DOMAIN table |-> ch.tf[t] * table[t]]

\* math.sqrt(sum(v * v for v in vec.values())) or 1.0
NormOf(vec) == IF Sqrt(SumSquares(vec)) = 0 THEN NormOne ELSE Sqrt(SumSquares(vec))

\* the chunk list after rebuild
Revectored(cs, table) ==
    [i \in 1..Len(cs) |->
        [cs[i] EXCEPT !.vec = VecOf(cs[i], table), !.norm = NormOf(VecOf(cs[i], table))]]

----------------------------------------------------------------------------
(* TfidfIndex.query *)

\* the query vector: the query's term frequencies times the index's IDF,
\* for the terms whose IDF entry exists and is not zero
QueryVec(text, table) ==
    LET tf == TermFreq(tokenize(text))
    IN  [t \in {u \in DOMAIN tf \cap DOMAIN table : table[u] # 0} |-> tf[t] * table[t]]

\* the dot product, iterating the smaller map and looking up in the larger
Dot(qvec, vec) ==
    LET qsmall == Cardinality(DOMAIN qvec) <= Cardinality(DOMAIN vec)
        small  == IF qsmall THEN qvec ELSE vec
        large  == IF qsmall THEN vec ELSE qvec
        shared == {t \in DOMAIN small : t \in DOMAIN large}
    IN  SumOver([t \in shared |-> small[t] * large[t]], shared)

\* dot / (qnorm * ch["norm"]), for a divisor that is not zero
Score(dot, qnorm, norm) == (dot * ScoreOne) \div (qnorm * norm)

\* the loop over the chunks, from chunk i on: the list scored, or the
\* ZeroDivisionError of a scored chunk whose norm is zero
RECURSIVE ScoreLoop(_, _, _, _, _)
ScoreLoop(cs, i, qvec, qnorm, scored) ==
    IF i > Len(cs) THEN [kind |-> "ok", val |-> scored]
    ELSE IF cs[i].vec = EmptyMap THEN ScoreLoop(cs, i + 1, qvec, qnorm, scored)
    ELSE IF Dot(qvec, cs[i].vec) = 0 THEN ScoreLoop(cs, i + 1, qvec, qnorm, scored)
    ELSE IF qnorm * cs[i].norm = 0 THEN [kind |-> "raise", val |-> "ZeroDivisionError"]
    ELSE ScoreLoop(cs, i + 1, qvec, qnorm,
                   Append(scored, [score |-> Score(Dot(qvec, cs[i].vec), qnorm, cs[i].norm),
                                   chunk |-> i]))

\* where x goes into a list sorted by score, descending
InsertAtUnstable(sorted, x) ==
    LET below == {j \in 1..Len(sorted) : sorted[j].score <= x.score}
    IN  IF below = {} THEN Len(sorted) + 1 ELSE CHOOSE j \in below : \A m \in below : j <= m

\* list.sort is stable, also with reverse=True: x goes after its equals
InsertAt(sorted, x) ==
    LET below == {j \in 1..Len(sorted) : sorted[j].score < x.score}
    IN  IF below = {} THEN Len(sorted) + 1 ELSE CHOOSE j \in below : \A m \in below : j <= m

\* scored.sort(key=lambda x: x[0], reverse=True), element by element
RECURSIVE SortDesc(_, _, _)
SortDesc(scored, i, sorted) ==
    IF i > Len(scored) THEN sorted
    ELSE LET at == InsertAt(sorted, scored[i])
         IN  SortDesc(scored, i + 1,
                      SubSeq(sorted, 1, at - 1) \o <<scored[i]>> \o SubSeq(sorted, at, Len(sorted)))

\* the chunks query scores, in chunk order
Candidates(cs, table, text) ==
    LET qvec == QueryVec(text, table)
    IN  ScoreLoop(cs, 1, qvec, NormOf(qvec), <<>>)

\* query(text, k) for k >= 0
QueryOn(cs, table, text, k) ==
    IF tokenize(text) = <<>> \/ cs = <<>> THEN [kind |-> "ok", val |-> <<>>]
    ELSE IF QueryVec(text, table) = EmptyMap THEN [kind |-> "ok", val |-> <<>>]
    ELSE LET c == Candidates(cs, table, text)
         IN  IF c.kind = "raise" THEN c
             ELSE [kind |-> "ok", val |-> Prefix(SortDesc(c.val, 1, <<>>), k)]

----------------------------------------------------------------------------
(* The operations on the index *)

\* the texts query is called with
QueryTexts == {<<>>, <<"q">>, <<"x">>, <<"z", " ", "Y">>}

None == <<>>

Init ==
    /\ docs = <<>>
    /\ chunks = <<>>
    /\ idf = EmptyMap
    /\ nbuilt = 0
    /\ phase = "any"
    /\ op = [name |-> "init"]
    /\ ret = [kind |-> "ok", val |-> None]
    /\ sc_text = <<>>
    /\ sc_max = DefaultMaxChars
    /\ sc_pc = "idle"
    /\ sc_out = <<>>

\* add_file(path): path.read_text raises for a file that cannot be read
AddFile ==
    \E path \in FilePaths :
        /\ op' = [name |-> "add_file", path |-> path]
        /\ IF ~Entry(path).readable
           THEN /\ ret' = [kind |-> "raise", val |-> "OSError"]
                /\ UNCHANGED <<docs, chunks, phase>>
           ELSE \E r \in {AddFileTo(chunks, docs, path)} :
                    /\ Len(r[1]) <= MaxChunks
                    /\ Len(r[2]) <= MaxDocs
                    /\ chunks' = r[1]
                    /\ docs' = r[2]
                    /\ ret' = [kind |-> "ok", val |-> r[3]]
                    /\ phase' = IF phase = "cleared" THEN "cleared_added" ELSE "any"
        /\ UNCHANGED <<idf, nbuilt>>
        /\ UNCHANGED chunkerVars

\* add_folder(folder)
AddFolder ==
    \E dir \in Folders :
        \E r \in {AddFolderTo(chunks, docs, dir)} :
            /\ Len(r.chunks) <= MaxChunks
            /\ Len(r.docs) <= MaxDocs
            /\ op' = [name |-> "add_folder", dir |-> dir]
            /\ chunks' = r.chunks
            /\ docs' = r.docs
            /\ ret' = IF r.kind = "ok"
                      THEN [kind |-> "ok", val |-> <<r.nfiles, r.nchunks>>]
                      ELSE [kind |-> "raise", val |-> r.error]
            /\ phase' = IF r.docs = docs THEN phase ELSE "any"
            /\ UNCHANGED <<idf, nbuilt>>
            /\ UNCHANGED chunkerVars

\* rebuild()
Rebuild ==
    /\ op' = [name |-> "rebuild"]
    /\ idf' = IdfOf(chunks)
    /\ chunks' = Revectored(chunks, idf')
    /\ nbuilt' = Len(chunks)
    /\ phase' = "any"
    /\ ret' = [kind |-> "ok", val |-> None]
    /\ UNCHANGED docs
    /\ UNCHANGED chunkerVars

\* query(text, k)
Query ==
    \E text \in QueryTexts, k \in 0..MaxK :
        /\ op' = [name |-> "query", text |-> text, k |-> k]
        /\ ret' = QueryOn(chunks, idf, text, k)
        /\ UNCHANGED <<docs, chunks, idf, nbuilt, phase>>
        /\ UNCHANGED chunkerVars

\* a clear that empties the two lists and keeps the IDF table
ClearKeepsIdf ==
    /\ op' = [name |-> "clear"]
    /\ docs' = <<>>
    /\ chunks' = <<>>
    /\ nbuilt' = 0
    /\ phase' = "cleared"
    /\ ret' = [kind |-> "ok", val |-> None]
    /\ UNCHANGED idf
    /\ UNCHANGED chunkerVars

\* Bot._intent_doc_clear: self.index = TfidfIndex()
Clear ==
    /\ op' = [name |-> "clear"]
    /\ docs' = <<>>
    /\ chunks' = <<>>
    /\ idf' = EmptyMap
    /\ nbuilt' = 0
    /\ phase' = "cleared"
    /\ ret' = [kind |-> "ok", val |-> None]
    /\ UNCHANGED chunkerVars

Next == AddFile \/ AddFolder \/ Rebuild \/ Query \/ Clear

Spec == Init /\ [][Next]_vars

----------------------------------------------------------------------------
(* Bot.respond: one action for each command that reaches the index *)

\* the k that _intent_ask passes to query
AskK == 3

\* the names "load <file>" is given: every entry of every folder, and one
\* name that resolves to nothing
LoadTargets ==
    UNION {{[dir |-> d, name |-> e.name] : e \in FileSystem[d]} : d \in DOMAIN FileSystem}
        \cup {[dir |-> "d0", name |-> <<"a", ".", "t", "x", "t">>]}

\* _resolve_for_load: a candidate that exists
Resolves(path) ==
    /\ Exists(path.dir)
    /\ \E e \in FileSystem[path.dir] : e.name = path.name

\* "not target or not target.is_file() or target.suffix.lower() not in ALLOWED_SUFFIX"
Loadable(path) == Resolves(path) /\ Accepts(Entry(path))

\* the questions "ask <q>" is given: q is stripped and not empty
AskTexts == QueryTexts \ {<<>>}

\* the reply of respond, by its kind
Reply(kind) == [kind |-> "ok", val |-> kind]

\* respond("load <file>"): _intent_load_file, an exception of add_file caught
RespondLoadFile ==
    \E path \in LoadTargets :
        /\ op' = [name |-> "load", path |-> path]
        /\ IF ~Loadable(path)
           THEN /\ ret' = Reply("unsupported")
                /\ UNCHANGED <<docs, chunks, idf, nbuilt, phase>>
           ELSE IF ~Entry(path).readable
           THEN /\ ret' = Reply("oops")
                /\ UNCHANGED <<docs, chunks, idf, nbuilt, phase>>
           ELSE \E r \in {AddFileTo(chunks, docs, path)} :
                    /\ Len(r[1]) <= MaxChunks
                    /\ Len(r[2]) <= MaxDocs
                    /\ docs' = r[2]
                    /\ idf' = IdfOf(r[1])
                    /\ chunks' = Revectored(r[1], idf')
                    /\ nbuilt' = Len(r[1])
                    /\ phase' = "any"
                    /\ ret' = Reply("loaded")
        /\ UNCHANGED chunkerVars

\* respond("load folder <folder>"): _intent_load_folder, an exception of
\* add_folder caught by respond before rebuild is reached
RespondLoadFolder ==
    \E dir \in Folders :
        /\ op' = [name |-> "load_folder", dir |-> dir]
        /\ IF ~Exists(dir)
           THEN /\ ret' = Reply("folder_not_found")
                /\ UNCHANGED <<docs, chunks, idf, nbuilt, phase>>
           ELSE \E r \in {AddFolderTo(chunks, docs, dir)} :
                    /\ Len(r.chunks) <= MaxChunks
                    /\ Len(r.docs) <= MaxDocs
                    /\ docs' = r.docs
                    /\ IF r.kind = "raise"
                       THEN /\ chunks' = r.chunks
                            /\ ret' = Reply("oops")
                            /\ phase' = IF r.docs = docs THEN phase ELSE "any"
                            /\ UNCHANGED <<idf, nbuilt>>
                       ELSE IF r.nfiles = 0
                       THEN /\ chunks' = r.chunks
                            /\ ret' = Reply("no_files")
                            /\ UNCHANGED <<idf, nbuilt, phase>>
                       ELSE /\ idf' = IdfOf(r.chunks)
                            /\ chunks' = Revectored(r.chunks, idf')
                            /\ nbuilt' = Len(r.chunks)
                            /\ phase' = "any"
                            /\ ret' = Reply("indexed")
        /\ UNCHANGED chunkerVars

\* respond("ask <q>"): _intent_ask, an exception of query caught
RespondAsk ==
    \E text \in AskTexts :
        \E r \in {QueryOn(chunks, idf, text, AskK)} :
            /\ op' = [name |-> "ask", text |-> text]
            /\ ret' = IF r.kind = "raise" THEN Reply("oops")
                      ELSE IF r.val = <<>> THEN Reply("no_matches")
                      ELSE Reply("matches")
            /\ UNCHANGED <<docs, chunks, idf, nbuilt, phase>>
            /\ UNCHANGED chunkerVars

\* respond("list docs"): _intent_doc_list
RespondListDocs ==
    /\ op' = [name |-> "list_docs"]
    /\ ret' = IF docs = <<>> THEN Reply("no_docs") ELSE Reply("docs")
    /\ UNCHANGED <<docs, chunks, idf, nbuilt, phase>>
    /\ UNCHANGED chunkerVars

\* respond("clear docs"): _intent_doc_clear
RespondClearDocs ==
    /\ op' = [name |-> "clear_docs"]
    /\ docs' = <<>>
    /\ chunks' = <<>>
    /\ idf' = EmptyMap
    /\ nbuilt' = 0
    /\ phase' = "cleared"
    /\ ret' = Reply("cleared")
    /\ UNCHANGED chunkerVars

BotNext ==
    \/ RespondLoadFile
    \/ RespondLoadFolder
    \/ RespondAsk
    \/ RespondListDocs
    \/ RespondClearDocs

BotSpec == Init /\ [][BotNext]_vars

----------------------------------------------------------------------------
(* split_chunks on its own: every text and max_chars within the bounds *)

TextAlphabet == {"a", ".", " ", "\n"}

Texts == UNION {[1..n -> TextAlphabet] : n \in 0..MaxTextLen}

ChunkInit ==
    /\ docs = <<>>
    /\ chunks = <<>>
    /\ idf = EmptyMap
    /\ nbuilt = 0
    /\ phase = "any"
    /\ op = [name |-> "init"]
    /\ ret = [kind |-> "ok", val |-> None]
    /\ sc_text \in Texts
    /\ sc_max \in 1..MaxMaxChars
    /\ sc_pc = "call"
    /\ sc_out = <<>>

SplitCall ==
    /\ sc_pc = "call"
    /\ sc_out' = split_chunks(sc_text, sc_max)
    /\ sc_pc' = "done"
    /\ UNCHANGED <<sc_text, sc_max>>
    /\ UNCHANGED indexVars

ChunkNext == SplitCall

ChunkSpec == ChunkInit /\ [][ChunkNext]_vars

----------------------------------------------------------------------------
(* Properties *)

Min(a, b) == IF a <= b THEN a ELSE b

\* x comes before y in the ranking: a higher score, or the same score and an
\* earlier place in the chunk list
RanksBefore(x, y) ==
    x.score > y.score \/ (x.score = y.score /\ x.chunk < y.chunk)

\* the scored candidates of the query that ran last, in chunk order
LastCandidates == Candidates(chunks, idf, op.text).val

\* C1: query returns the first k of its candidates in the order of score
\* descending, candidates of equal score in chunk insertion order: every
\* result is a candidate, each result ranks before the next, every candidate
\* left out ranks after every result, and min(k, candidates) are returned.
C1_QueryRanksAndTruncates ==
    (op.name = "query" /\ ret.kind = "ok") =>
        LET r == ret.val
            c == LastCandidates
        IN  /\ Len(r) = Min(op.k, Len(c))
            /\ Len(r) <= op.k
            /\ \A j \in 1..Len(r) : r[j] \in Range(c)
            /\ \A j \in 1..Len(r) : \A m \in (j + 1)..Len(r) : RanksBefore(r[j], r[m])
            /\ \A x \in Range(c) \ Range(r) : \A j \in 1..Len(r) : RanksBefore(r[j], x)

\* a query whose sort moved a later chunk to the front, and that cut off a
\* candidate whose score equals the score of the last result
C1_Witness ==
    /\ op.name = "query"
    /\ ret.kind = "ok"
    /\ Len(ret.val) = 2
    /\ ret.val[1].chunk > ret.val[2].chunk
    /\ \E x \in Range(LastCandidates) \ Range(ret.val) : x.score = ret.val[2].score

\* no chunk was added since rebuild last ran (or since the index was made)
Rebuilt == nbuilt = Len(chunks)

\* the chunks that share a token with the text
Sharing(text) ==
    {i \in 1..Len(chunks) : Range(chunks[i].tokens) \cap Range(tokenize(text)) # {}}

\* C2: after rebuild, the chunks query scores are those that share a token
\* with the query: every result shares one, and min(k, sharing chunks) are
\* returned, so none when the query has no token, none of its tokens is in
\* the corpus, or the corpus is empty.
C2_CandidateIffSharedToken ==
    (op.name = "query" /\ Rebuilt) =>
        /\ ret.kind = "ok"
        /\ \A j \in 1..Len(ret.val) : ret.val[j].chunk \in Sharing(op.text)
        /\ Len(ret.val) = Min(op.k, Cardinality(Sharing(op.text)))

\* a query after rebuild that returned a chunk and left out a chunk with
\* tokens that shares none with it, with room left in k
C2_Witness ==
    /\ op.name = "query"
    /\ Rebuilt
    /\ Len(ret.val) = 1
    /\ op.k = 2
    /\ \E i \in 1..Len(chunks) : chunks[i].tokens # <<>> /\ i \notin Sharing(op.text)

\* the empty index
Fresh == docs = <<>> /\ chunks = <<>> /\ idf = EmptyMap

\* C3: after a clear the documents, the chunks and the IDF table are empty
\* and query returns nothing; the add_file that follows leaves one document,
\* whose chunks are all the chunks, numbered from 0, none with a vector, and
\* an IDF table without entries.
C3_ClearStartsFromZero ==
    /\ phase = "cleared" =>
          /\ Fresh
          /\ (op.name = "query" => ret = [kind |-> "ok", val |-> <<>>])
    /\ phase = "cleared_added" =>
          /\ Len(docs) = 1
          /\ docs[1].n_chunks = Len(chunks)
          /\ \A i \in 1..Len(chunks) :
                /\ chunks[i].chunk_id = i - 1
                /\ chunks[i].doc_path = docs[1].path
                /\ chunks[i].vec = EmptyMap
          /\ idf = EmptyMap
          /\ (op.name = "query" => ret = [kind |-> "ok", val |-> <<>>])

\* a query that found nothing in a two-chunk document added after a clear
C3_Witness ==
    /\ phase = "cleared_added"
    /\ Len(chunks) = 2
    /\ op.name = "query"
    /\ op.text = <<"x">>

\* name ends with ext, compared without case, after a stem that is not empty
HasExtension(name, ext) ==
    /\ Len(name) > Len(ext)
    /\ Lower(SubSeq(name, Len(name) - Len(ext) + 1, Len(name))) = ext

\* the names of the files of a folder that end in .txt, .md or .log
Matching(dir) ==
    {e.name : e \in {x \in FileSystem[dir] :
                        x.kind = "file" /\ \E ext \in ALLOWED_SUFFIX : HasExtension(x.name, ext)}}

RECURSIVE SumChunkCounts(_, _)
SumChunkCounts(ds, i) ==
    IF i > Len(ds) THEN 0 ELSE ds[i].n_chunks + SumChunkCounts(ds, i + 1)

\* C4: an add_folder that returns has appended one document for each file
\* of the folder whose extension is .txt, .md or .log without regard to
\* case, and for nothing else, in increasing path order; file_count is their
\* number and chunk_count the sum of their chunk counts, which is the number
\* of chunks appended.
C4_AddFolderIngestsSorted ==
    [][(op'.name = "add_folder" /\ ret'.kind = "ok") =>
          LET new == SubSeq(docs', Len(docs) + 1, Len(docs'))
              added == SubSeq(chunks', Len(chunks) + 1, Len(chunks'))
          IN  /\ SubSeq(docs', 1, Len(docs)) = docs
              /\ SubSeq(chunks', 1, Len(chunks)) = chunks
              /\ {new[j].path.name : j \in 1..Len(new)} = Matching(op'.dir)
              /\ \A j \in 1..Len(new) : new[j].path.dir = op'.dir
              /\ \A j \in 1..Len(new) : \A m \in (j + 1)..Len(new) :
                    NameLess(new[j].path.name, new[m].path.name, 1)
              /\ ret'.val[1] = Cardinality(Matching(op'.dir))
              /\ ret'.val[1] = Len(new)
              /\ ret'.val[2] = SumChunkCounts(new, 1)
              /\ ret'.val[2] = Len(added)
              /\ \A j \in 1..Len(new) :
                    new[j].n_chunks = Cardinality({i \in 1..Len(added) : added[i].doc_path = new[j].path})
              /\ \A a \in 1..Len(added) : \A b \in (a + 1)..Len(added) :
                    ~NameLess(added[b].doc_path.name, added[a].doc_path.name, 1)
      ]_vars

\* add_folder on d1 has appended B.MD and a.txt, in this order, to an index
\* that held a document, and returned (2, 2)
C4_Witness ==
    /\ op.name = "add_folder"
    /\ op.dir = "d1"
    /\ ret = [kind |-> "ok", val |-> <<2, 2>>]
    /\ Len(docs) = 3
    /\ docs[2].path.name = <<"B", ".", "M", "D">>
    /\ docs[3].path.name = <<"a", ".", "t", "x", "t">>

\* C5: add_folder on a folder that does not exist, or that holds no matching
\* file, returns a zero count and changes neither documents, chunks nor IDF.
C5_FolderWithoutFilesReturnsZero ==
    [][(op'.name = "add_folder" /\ (IF Exists(op'.dir) THEN Matching(op'.dir) = {} ELSE TRUE)) =>
          /\ ret' = [kind |-> "ok", val |-> <<0, 0>>]
          /\ UNCHANGED <<docs, chunks, idf>>
      ]_vars

\* the number of times term t occurs among the tokens
Occurrences(toks, t) == Cardinality({i \in 1..Len(toks) : toks[i] = t})

\* the term frequencies of chunk ch are occurrences / token count, and sum to 1
TfIsRelativeCount(ch) ==
    /\ DOMAIN ch.tf = Range(ch.tokens)
    /\ ch.tf # EmptyMap
    /\ \A t \in DOMAIN ch.tf : ch.tf[t] * Len(ch.tokens) = Occurrences(ch.tokens, t) * One
    /\ SumValues(ch.tf) = One

\* C6, as claimed: every stored chunk has a token, and term frequencies that
\* are occurrences / token count and sum to 1.
C6_NoZeroTokenChunk ==
    \A i \in 1..Len(chunks) : chunks[i].tokens # <<>> /\ TfIsRelativeCount(chunks[i])

\* C6, amended: every stored chunk has a text that is not blank; a chunk with
\* a token has term frequencies that are occurrences / token count and sum to
\* 1; a chunk without a token has no term frequency at all.
C6_TfOfChunksWithTokens ==
    \A i \in 1..Len(chunks) :
        /\ Strip(chunks[i].text) # <<>>
        /\ chunks[i].tokens = tokenize(chunks[i].text)
        /\ chunks[i].tokens # <<>> => TfIsRelativeCount(chunks[i])
        /\ chunks[i].tokens = <<>> => chunks[i].tf = EmptyMap

\* an index that holds a chunk without a token and a chunk in which a term
\* occurs twice
C6_Witness ==
    /\ \E i \in 1..Len(chunks) : chunks[i].tokens = <<>>
    /\ \E i \in 1..Len(chunks) : \E t \in Range(chunks[i].tokens) :
          Occurrences(chunks[i].tokens, t) = 2 /\ Len(chunks[i].tokens) = 3

\* the text holds a match of \n\s*\n
HasBlankLine(text) == \E i \in 1..Len(text) : ParaSepEnd(text, i) > 0

\* C7, as claimed: a text without a blank-line separator and no longer than
\* max_chars gives exactly one chunk, the trimmed text.
C7_ShortTextOneChunk ==
    (sc_pc = "done" /\ ~HasBlankLine(sc_text) /\ Len(sc_text) <= sc_max) =>
        sc_out = <<Strip(sc_text)>>

\* C7, amended: such a text gives exactly one chunk, the trimmed text, when
\* it holds a character that is not whitespace, and no chunk otherwise.
C7_ShortNonBlankTextOneChunk ==
    (sc_pc = "done" /\ ~HasBlankLine(sc_text) /\ Len(sc_text) <= sc_max) =>
        IF Strip(sc_text) # <<>> THEN sc_out = <<Strip(sc_text)>> ELSE sc_out = <<>>

\* a short text with a newline inside and whitespace around, returned trimmed
C7_Witness ==
    /\ sc_pc = "done"
    /\ ~HasBlankLine(sc_text)
    /\ Len(sc_text) <= sc_max
    /\ Len(sc_out) = 1
    /\ Len(sc_out[1]) < Len(sc_text)

\* C8: a chunk of split_chunks is no longer than max_chars, unless it is one
\* sentence, by itself longer than max_chars, of a paragraph longer than
\* max_chars.
C8_ChunksBounded ==
    sc_pc = "done" =>
        \A j \in 1..Len(sc_out) :
            \/ Len(sc_out[j]) <= sc_max
            \/ \E p \in Range(Paragraphs(sc_text)) :
                  /\ Len(p) > sc_max
                  /\ sc_out[j] \in Range(Sentences(p))

\* one paragraph of two sentences: the first, too long, is emitted by itself
\* and the second after it
C8_Witness ==
    /\ sc_pc = "done"
    /\ Len(Paragraphs(sc_text)) = 1
    /\ Len(sc_out) = 2
    /\ Len(sc_out[1]) > sc_max
    /\ Len(sc_out[2]) <= sc_max

\* C9: query never divides by zero; the chunks it returns have a vector and
\* a positive norm and were there when rebuild last ran; a chunk added since
\* has no vector and norm 0, and every chunk with a vector has a positive norm.
C9_QueryNeverFails ==
    /\ op.name = "query" =>
          /\ ret.kind = "ok"
          /\ \A j \in 1..Len(ret.val) :
                /\ ret.val[j].chunk <= nbuilt
                /\ chunks[ret.val[j].chunk].vec # EmptyMap
                /\ chunks[ret.val[j].chunk].norm > 0
    /\ \A i \in 1..Len(chunks) :
          /\ i > nbuilt => (chunks[i].vec = EmptyMap /\ chunks[i].norm = 0)
          /\ chunks[i].vec # EmptyMap => chunks[i].norm > 0

\* a query that returned a chunk while a chunk added after the last rebuild
\* shares a token with it
C9_Witness ==
    /\ op.name = "query"
    /\ 0 < nbuilt
    /\ nbuilt < Len(chunks)
    /\ ret.val # <<>>
    /\ \E i \in (nbuilt + 1)..Len(chunks) : i \in Sharing(op.text)

\* the number of chunks that hold term t
ChunksWith(t) == Cardinality({i \in 1..Len(chunks) : t \in Range(chunks[i].tokens)})

\* C10: right after rebuild the IDF table has an entry for the terms of the
\* chunks and no other; with df(t) the number of chunks that hold t and
\* N = max(1, chunks), 1 <= df(t) <= N and idf(t) = ln((1+N)/(1+df(t))) + 1.0,
\* which is at least 1.0, and 1.0 exactly when every chunk holds t.
C10_IdfFromChunkCounts ==
    op.name = "rebuild" =>
        LET N == Max(1, Len(chunks))
        IN  /\ DOMAIN idf = UNION {Range(chunks[i].tokens) : i \in 1..Len(chunks)}
            /\ \A t \in DOMAIN idf :
                  /\ 1 <= ChunksWith(t)
                  /\ ChunksWith(t) <= N
                  /\ idf[t] = LogRatio(1 + N, 1 + ChunksWith(t)) + IdfOne
                  /\ idf[t] >= IdfOne
                  /\ idf[t] = IdfOne <=> ChunksWith(t) = Len(chunks)

\* a rebuild over several chunks, one of which repeats a term: one term is in
\* every chunk and has weight 1.0, another is not and weighs more
C10_Witness ==
    /\ op.name = "rebuild"
    /\ Len(chunks) >= 2
    /\ \E t \in DOMAIN idf : idf[t] = IdfOne
    /\ \E t \in DOMAIN idf : idf[t] > IdfOne
    /\ \E i \in 1..Len(chunks) : \E t \in Range(chunks[i].tokens) :
          Occurrences(chunks[i].tokens, t) = 2

\* the chunk has the weight vector rebuild gives it from the table
VecBuilt(ch, table) ==
    /\ DOMAIN ch.vec = DOMAIN ch.tf
    /\ ch.vec = VecOf(ch, table)

\* C11: after every respond call of the Bot, whatever the commands were and
\* also when a file read raised part-way through a load, every stored chunk
\* that has tokens has a weight vector with the terms of its term
\* frequencies, computed from an IDF table built over all current chunks.
C11_NoUnrebuiltChunkAfterRespond ==
    \A i \in 1..Len(chunks) :
        chunks[i].tokens # <<>> =>
            /\ idf = IdfOf(chunks)
            /\ VecBuilt(chunks[i], idf)

====
